---- MODULE Spec2Model ----
(***************************************************************************)
(* Update ingestion and dispatch pipeline of go-telegram-bot: the router   *)
(* (core/router.go), the panic-safe invoker WithRecovery, the middleware   *)
(* chain, the poller (core/polling.go) and the webhook receiver            *)
(* (webhooks/webhook.go).                                                  *)
(***************************************************************************)
EXTENDS Integers, Sequences, FiniteSets, TLC

\* ------------------------------------------------------------------------
\* Bounds of the model
\* ------------------------------------------------------------------------
MaxTextLen == 3      \* longest message text
MaxId == 3           \* largest update_id the transport hands out
MaxBatch == 2        \* longest batch one GetUpdates call returns
MaxMw == 4           \* longest middleware list given to ComposeMiddleware
MaxConn == 2         \* webhook requests served at the same time
MaxStarts == 2       \* Start calls made on one poller
MaxThreads == 2      \* goroutines that call the cache at the same time

\* ------------------------------------------------------------------------
\* Values
\* ------------------------------------------------------------------------
Nil == "nil"                          \* Go's nil: no error, no handler
Chars == {"/", "a", " "}              \* alphabet of message texts
Texts == UNION {[1..k -> Chars] : k \in 0..MaxTextLen}
CommandKeys == {<<"/", "a">>, <<"/">>}    \* keys given to HandleCommand
CallbackKeys == {<<"a">>}                 \* keys given to HandleCallback
Handlers == {"h1", "h2"}              \* application handler functions
Errors == {"e1", "e2"}                \* error values a handler may return
Outcomes == {"ok", "panic"} \cup Errors   \* what one handler call does
ChatIds == {1, 2}

\* core.Message: only the fields the pipeline inspects.
Messages == [Text : Texts, Document : BOOLEAN, Animation : BOOLEAN, ChatID : ChatIds]
NoMessage == [absent |-> TRUE]         \* update.Message == nil
\* core.Update
Updates == [UpdateID : 0..MaxId, Message : Messages \cup {NoMessage}]

\* ------------------------------------------------------------------------
\* State
\* ------------------------------------------------------------------------
\* simpleRouter: the dispatch table; routeRes is the Route call in progress.
VARIABLES commandHandlers, callbackHandlers, documentHandler, animationHandler,
          routeRes
\* The most recent registration call: which method, its key, the handler
\* given, and the handler the table held for that key before the call
\* (recorded by the specification that follows the registrations).
VARIABLES lastReg
\* A composed middleware chain: the list given to ComposeMiddleware, the
\* allowed chats given to SecurityMiddleware, the composed handler and the
\* call of it in progress.
VARIABLES mwList, allowedIDs, composed, mwRes
\* pollingImpl: the cursor p.offset, p.cancel (0 is nil, else the number of
\* the Start call whose context it cancels), the context given to Start, and
\* one record per polling goroutine: where it is, whether its context was
\* cancelled, whether its ticker holds a tick, the update_ids of the fetched
\* updates still to route.
VARIABLES offset, cancel, parentDone, loops
\* What has happened so far: the largest update_id routed and fetched, whether
\* the fetched ids have been strictly increasing, what the handler of the last
\* routed update did, the cursor given to the GetUpdates call in progress,
\* and whether GetUpdates was ever called by a loop whose context was already
\* cancelled.
VARIABLES maxRouted, lastFetched, monotone, lastOut, fetchArg,
          fetchedAfterCancel
\* The cursor given to the most recent GetUpdates call that has returned, when
\* that call returned an error; -1 when it returned a batch.
VARIABLES failArg
\* Webhook receiver: the requests being served, one per connection.
VARIABLES conns
\* One ListenAndServe call: the listener of the http.Server ("none" until the
\* server goroutine listens, "open", "failed" when it could not listen,
\* "closed" by Shutdown), where the call is ("waiting" on ctx.Done(), in
\* "shutdown", "returned"), whether ctx was cancelled, what the call returned,
\* and the time units since shutdownCtx was created.
VARIABLES server, lsPc, ctxDone, lsRet, shutdownClock
\* The latest event that had already happened when some connection was
\* accepted: "nothing", the cancellation "signal", or the "shutdown" begun.
VARIABLES acceptedAfter
\* MemoryCache: the map mc.data (a key it does not hold maps to Absent), the
\* RWMutex mc.mu (the goroutine that holds the write lock, 0 for none, and
\* the goroutines that hold the read lock) and, per goroutine, its call in
\* progress.
VARIABLES mcData, mu, calls
\* The cache as a sequence of whole calls leaves it: each call is applied, in
\* one step, when it gets the lock.
VARIABLES abs

routerTable == <<commandHandlers, callbackHandlers, documentHandler, animationHandler>>
routerVars == <<commandHandlers, callbackHandlers, documentHandler,
                animationHandler, routeRes>>
mwVars == <<mwList, allowedIDs, composed, mwRes>>
pollState == <<offset, cancel, parentDone, loops>>
pollHist == <<maxRouted, lastFetched, monotone, lastOut, fetchArg,
              fetchedAfterCancel, failArg>>
pollVars == <<pollState, pollHist>>
whLife == <<server, lsPc, ctxDone, lsRet, shutdownClock>>
whVars == <<conns, whLife, acceptedAfter>>
cacheVars == <<mcData, mu, calls, abs>>
vars == <<routerVars, lastReg, mwVars, pollVars, whVars, cacheVars>>
\* What the actions of one component leave alone.
notRouter == <<mwVars, pollVars, whVars, cacheVars>>
notMw == <<routerVars, lastReg, pollVars, whVars, cacheVars>>
notPoll == <<routerVars, lastReg, mwVars, whVars, cacheVars>>
notWh == <<routerVars, lastReg, mwVars, pollVars, cacheVars>>
notCache == <<routerVars, lastReg, mwVars, pollVars, whVars>>

\* ------------------------------------------------------------------------
\* Panic-safe invoker
\* ------------------------------------------------------------------------
\* One call of a HandlerFunc: it returns nil, returns an error, or panics.
CallHandler(h, out) ==
  [handler |-> h, panicked |-> (out = "panic"),
   err |-> IF out \in Errors THEN out ELSE Nil]

WithRecovery_NoRecover(call) ==
  [escaped |-> call.panicked, logs |-> <<>>]

\* WithRecovery(logger, fn): the deferred recover() stops any panic of fn and
\* logs it once at error level; nothing is returned to the caller.
WithRecovery(call) ==
  [escaped |-> FALSE,
   logs |-> IF call.panicked
            THEN <<[level |-> "error", msg |-> "Panic recovered"]>>
            ELSE <<>>]

ClosureErr_Swallow(call, before) == before

\* The closure `err = handler(update)` run under WithRecovery: the assignment
\* happens only when the handler returns, a panic leaves err as it was.
ClosureErr(call, before) == IF call.panicked THEN before ELSE call.err

\* ------------------------------------------------------------------------
\* Router
\* ------------------------------------------------------------------------
EmptyMap == [k \in {} |-> Nil]

MapSet_KeepFirst(m, k, v) ==
  [x \in (DOMAIN m) \cup {k} |-> IF x \in DOMAIN m THEN m[x] ELSE v]

\* `m[k] = v`
MapSet(m, k, v) == [x \in (DOMAIN m) \cup {k} |-> IF x = k THEN v ELSE m[x]]
MapGet(m, k) == IF k \in DOMAIN m THEN m[k] ELSE Nil

NoRoute == [called |-> FALSE]
NoReg == [kind |-> "none"]
Reg(kind, key, handler, before) ==
  [kind |-> kind, key |-> key, handler |-> handler, replaced |-> before]

\* First whitespace-separated token of a text (what a tokenising lookup
\* would use as the key).
FirstToken(text) ==
  LET spaces == {i \in 1..Len(text) : text[i] = " "}
  IN  IF spaces = {} THEN text
      ELSE SubSeq(text, 1, (CHOOSE i \in spaces : \A j \in spaces : i <= j) - 1)

CommandLookup_FirstToken(cmds, text) ==
  IF FirstToken(text) \in DOMAIN cmds THEN cmds[FirstToken(text)] ELSE Nil

\* The lookup r.commandHandlers[text]: the key is the whole text.
CommandLookup(cmds, text) ==
  IF text \in DOMAIN cmds THEN cmds[text] ELSE Nil

Guarded_RetryOnError(h, out, errLog, okLog) ==
  LET call == CallHandler(h, out)
      rec  == WithRecovery(call)
      err  == ClosureErr(call, Nil)
  IN  [ret |-> err,
       calls |-> IF err # Nil THEN <<h, h>> ELSE <<h>>,
       escaped |-> rec.escaped,
       logs |-> rec.logs \o
                (IF err # Nil THEN <<[level |-> "error", msg |-> errLog]>>
                 ELSE okLog)]

\* A handler invoked under WithRecovery followed by the `if err != nil` test.
Guarded(h, out, errLog, okLog) ==
  LET call == CallHandler(h, out)
      rec  == WithRecovery(call)
      err  == ClosureErr(call, Nil)
  IN  [ret |-> err,
       calls |-> <<h>>,
       escaped |-> rec.escaped,
       logs |-> rec.logs \o
                (IF err # Nil THEN <<[level |-> "error", msg |-> errLog]>>
                 ELSE okLog)]

Quiet(level, msg) ==
  [ret |-> Nil, calls |-> <<>>, escaped |-> FALSE,
   logs |-> <<[level |-> level, msg |-> msg]>>]

IsCommandText_LongerThanSlash(text) == Len(text) > 1 /\ text[1] = "/"

\* `len(text) > 0 && text[0] == '/'`
IsCommandText(text) == Len(text) > 0 /\ text[1] = "/"

\* Route, the branch of a text that begins with '/'.
CommandBranch(cmds, text, out) ==
  LET h == CommandLookup(cmds, text) IN
  IF h # Nil
  THEN Guarded(h, out, "Error handling command",
               <<[level |-> "info", msg |-> "Handled command successfully"]>>)
  ELSE Quiet("warn", "No handler registered for command")

PayloadChoice_AnimationFirst(docH, animH, msg) ==
  IF msg.Animation /\ animH # Nil THEN "animation"
  ELSE IF msg.Document /\ docH # Nil THEN "document"
  ELSE "none"

\* The if / else-if tests of the branch for messages without a command text:
\* `Document != nil && documentHandler != nil`, else
\* `Animation != nil && animationHandler != nil`.
PayloadChoice(docH, animH, msg) ==
  IF msg.Document /\ docH # Nil THEN "document"
  ELSE IF msg.Animation /\ animH # Nil THEN "animation"
  ELSE "none"

ContentBranch_CommandsOnly(docH, animH, msg, out) ==
  Quiet("debug", "Received message without command")

\* Route, the branch of every other message: document, then animation.
ContentBranch(docH, animH, msg, out) ==
  CASE PayloadChoice(docH, animH, msg) = "document" ->
         Guarded(docH, out, "Error handling document", <<>>)
    [] PayloadChoice(docH, animH, msg) = "animation" ->
         Guarded(animH, out, "Error handling animation", <<>>)
    [] OTHER -> Quiet("debug", "Received message without specific handler")

Route_NoMessageIsError(cmds, docH, animH, update, out) ==
  IF update.Message = NoMessage
  THEN [ret |-> "e1", calls |-> <<>>, escaped |-> FALSE, logs |-> <<>>]
  ELSE IF IsCommandText(update.Message.Text)
       THEN CommandBranch(cmds, update.Message.Text, out)
       ELSE ContentBranch(docH, animH, update.Message, out)

\* simpleRouter.Route
Route(cmds, docH, animH, update, out) ==
  IF update.Message = NoMessage
  THEN [ret |-> Nil, calls |-> <<>>, escaped |-> FALSE, logs |-> <<>>]
  ELSE IF IsCommandText(update.Message.Text)
       THEN CommandBranch(cmds, update.Message.Text, out)
       ELSE ContentBranch(docH, animH, update.Message, out)

\* NewRouter
RouterInit ==
  /\ commandHandlers = EmptyMap
  /\ callbackHandlers = EmptyMap
  /\ documentHandler = Nil
  /\ animationHandler = Nil
  /\ routeRes = NoRoute
  /\ lastReg = NoReg

HandleCommand(command, handler) ==
  /\ ~routeRes.called
  /\ commandHandlers' = MapSet(commandHandlers, command, handler)
  /\ UNCHANGED <<callbackHandlers, documentHandler, animationHandler, routeRes, notRouter>>

HandleCallback_AlsoCommand(callbackData, handler) ==
  /\ ~routeRes.called
  /\ callbackHandlers' = MapSet(callbackHandlers, callbackData, handler)
  /\ commandHandlers' = MapSet(commandHandlers, callbackData, handler)
  /\ UNCHANGED <<documentHandler, animationHandler, routeRes, notRouter>>

\* `r.callbackHandlers[callbackData] = handler`
HandleCallback(callbackData, handler) ==
  /\ ~routeRes.called
  /\ callbackHandlers' = MapSet(callbackHandlers, callbackData, handler)
  /\ UNCHANGED <<commandHandlers, documentHandler, animationHandler, routeRes, notRouter>>

HandleDocument(handler) ==
  /\ ~routeRes.called
  /\ documentHandler' = handler
  /\ UNCHANGED <<commandHandlers, callbackHandlers, animationHandler, routeRes, notRouter>>

HandleAnimation(handler) ==
  /\ ~routeRes.called
  /\ animationHandler' = handler
  /\ UNCHANGED <<commandHandlers, callbackHandlers, documentHandler, routeRes, notRouter>>

\* The update is one that Route dispatches by the key of registration reg.
ForKeyOf(reg, docH, update) ==
  /\ update.Message # NoMessage
  /\ CASE reg.kind = "command" -> update.Message.Text = reg.key
        [] reg.kind = "document" ->
             ~IsCommandText(update.Message.Text) /\ update.Message.Document
        [] reg.kind = "animation" ->
             /\ ~IsCommandText(update.Message.Text) /\ update.Message.Animation
             /\ ~(update.Message.Document /\ docH # Nil)
        [] OTHER -> FALSE

\* One call of Route by the application; routeRes records the call and its
\* result until the caller has taken the result (RouteReturn). The caller is
\* sequential: it registers or routes again only after Route has returned.
RouteCall(update, out) ==
  LET r == Route(commandHandlers, documentHandler, animationHandler, update, out)
  IN  /\ ~routeRes.called
      /\ routeRes' = [called |-> TRUE, update |-> update, out |-> out,
                      ret |-> r.ret, calls |-> r.calls,
                      escaped |-> r.escaped, logs |-> r.logs]
      /\ UNCHANGED <<routerTable, lastReg, notRouter>>

RouteReturn ==
  /\ routeRes.called
  /\ routeRes' = NoRoute
  /\ UNCHANGED <<routerTable, lastReg, notRouter>>

RegisterCommand ==
  \E k \in CommandKeys, h \in Handlers : HandleCommand(k, h) /\ UNCHANGED lastReg
RegisterCallback ==
  \E k \in CallbackKeys, h \in Handlers : HandleCallback(k, h) /\ UNCHANGED lastReg
RegisterDocument == \E h \in Handlers : HandleDocument(h) /\ UNCHANGED lastReg
RegisterAnimation == \E h \in Handlers : HandleAnimation(h) /\ UNCHANGED lastReg

\* The same registration calls, each recorded in lastReg.
NotedCommand ==
  \E k \in CommandKeys, h \in Handlers :
    /\ HandleCommand(k, h)
    /\ lastReg' = Reg("command", k, h, MapGet(commandHandlers, k))
NotedCallback ==
  \E k \in CallbackKeys, h \in Handlers :
    /\ HandleCallback(k, h)
    /\ lastReg' = Reg("callback", k, h, MapGet(callbackHandlers, k))
NotedDocument ==
  \E h \in Handlers :
    /\ HandleDocument(h)
    /\ lastReg' = Reg("document", <<>>, h, documentHandler)
NotedAnimation ==
  \E h \in Handlers :
    /\ HandleAnimation(h)
    /\ lastReg' = Reg("animation", <<>>, h, animationHandler)
\* The handler Route selects for an update, Nil when it selects none.
Selected(cmds, docH, animH, update) ==
  LET r == Route(cmds, docH, animH, update, "ok")
  IN  IF r.calls = <<>> THEN Nil ELSE r.calls[1]

\* The outcome of a handler matters only when Route calls one.
OutcomesFor(update) ==
  IF Selected(commandHandlers, documentHandler, animationHandler, update) = Nil
  THEN {"ok"} ELSE Outcomes

\* Route reads neither the update_id nor the chat: one value of each is enough.
RouterUpdates ==
  {[UpdateID |-> 0, Message |-> m] :
     m \in {NoMessage} \cup
           [Text : Texts, Document : BOOLEAN, Animation : BOOLEAN, ChatID : {1}]}
DoRouteOf(us) ==
  /\ ~routeRes.called
  /\ \E u \in us : \E out \in OutcomesFor(u) : RouteCall(u, out)
DoRoute == DoRouteOf(RouterUpdates)

\* The updates whose text is a key that can be registered, or empty.
KeyedUpdates ==
  {[UpdateID |-> 0, Message |-> m] :
     m \in {NoMessage} \cup
           [Text : CommandKeys \cup {<<>>}, Document : BOOLEAN,
            Animation : BOOLEAN, ChatID : {1}]}
DoRouteKeyed == DoRouteOf(KeyedUpdates)

\* ------------------------------------------------------------------------
\* Middleware chain
\* ------------------------------------------------------------------------
\* The middleware constructors of package middleware.
MwKinds == {"Logging", "Auth", "Timing", "Recovery",
            "Security", "Tracing", "RequestLogging"}
MwLists == UNION {[1..k -> MwKinds] : k \in 0..MaxMw}

\* A handler is the list of its stages, outermost first, ending with the
\* terminal handler function; mws[i](handler) puts one stage in front.
Terminal(h) == <<h>>
Wrap(mw, handler) == <<mw>> \o handler

RECURSIVE ComposeForward(_, _, _)
ComposeForward(handler, mws, i) ==
  IF i > Len(mws) THEN handler
  ELSE ComposeForward(Wrap(mws[i], handler), mws, i + 1)

ComposeMiddleware_Forward(handler, mws) == ComposeForward(handler, mws, 1)

\* The loop `for i := len(mws) - 1; i >= 0; i--` (indices from 1 here).
RECURSIVE ComposeFrom(_, _, _)
ComposeFrom(handler, mws, i) ==
  IF i < 1 THEN handler
  ELSE ComposeFrom(Wrap(mws[i], handler), mws, i - 1)

ComposeMiddleware(handler, mws) == ComposeFrom(handler, mws, Len(mws))

Ev(d, stage, what) == [depth |-> d, stage |-> stage, ev |-> what]

AfterNext_LoggingMasksError(kind, d, r) ==
  IF kind = "Recovery"
  THEN LET call == [handler |-> "next", panicked |-> r.panicked, err |-> r.ret]
           rec  == WithRecovery(call)
       IN  [ret |-> ClosureErr(call, Nil), panicked |-> rec.escaped,
            events |-> [i \in 1..Len(rec.logs) |-> Ev(d, kind, rec.logs[i].msg)]]
  ELSE IF r.panicked
  THEN [ret |-> Nil, panicked |-> TRUE, events |-> <<>>]
  ELSE [ret |-> IF kind = "Logging" /\ r.ret # Nil THEN "e1" ELSE r.ret,
        panicked |-> FALSE,
        events |->
          CASE kind = "Logging" ->
                 IF r.ret # Nil THEN <<Ev(d, kind, "Error in handler")>> ELSE <<>>
            [] kind = "RequestLogging" ->
                 IF r.ret # Nil THEN <<Ev(d, kind, "handler returned error")>>
                 ELSE <<Ev(d, kind, "handler executed successfully")>>
            [] kind = "Timing" -> <<Ev(d, kind, "Handler execution time")>>
            [] OTHER -> <<>>]

\* What a stage does once its next handler has come back with result r
\* (r.panicked: next is unwinding with a panic).
AfterNext(kind, d, r) ==
  IF kind = "Recovery"
  THEN LET call == [handler |-> "next", panicked |-> r.panicked, err |-> r.ret]
           rec  == WithRecovery(call)
       IN  [ret |-> ClosureErr(call, Nil), panicked |-> rec.escaped,
            events |-> [i \in 1..Len(rec.logs) |-> Ev(d, kind, rec.logs[i].msg)]]
  ELSE IF r.panicked
  THEN [ret |-> Nil, panicked |-> TRUE, events |-> <<>>]
  ELSE [ret |-> r.ret, panicked |-> FALSE,
        events |->
          CASE kind = "Logging" ->
                 IF r.ret # Nil THEN <<Ev(d, kind, "Error in handler")>> ELSE <<>>
            [] kind = "RequestLogging" ->
                 IF r.ret # Nil THEN <<Ev(d, kind, "handler returned error")>>
                 ELSE <<Ev(d, kind, "handler executed successfully")>>
            [] kind = "Timing" -> <<Ev(d, kind, "Handler execution time")>>
            [] OTHER -> <<>>]

\* What a stage does before it calls next.
BeforeNext(kind, d) ==
  CASE kind = "Logging" -> <<Ev(d, kind, "Received update")>>
    [] kind = "RequestLogging" -> <<Ev(d, kind, "received update")>>
    [] kind = "Auth" -> <<Ev(d, kind, "Auth check passed")>>
    [] kind = "Timing" -> <<Ev(d, kind, "start")>>
    [] kind = "Tracing" -> <<Ev(d, kind, "generated correlation ID")>>
    [] OTHER -> <<>>

SecurityCheck_MembershipOnly(allowed, update) ==
  IF update.Message = NoMessage THEN Nil
  ELSE IF update.Message.ChatID \notin allowed THEN "security: access denied"
  ELSE Nil

\* SecurityMiddleware's test: Nil to go on, else the error it returns.
SecurityCheck(allowed, update) ==
  IF update.Message = NoMessage THEN "security: no message in update"
  ELSE IF update.Message.ChatID \notin allowed THEN "security: access denied"
  ELSE Nil

\* One call of a composed handler, stage d of it first. The result carries
\* the returned error, whether a panic is leaving the handler, and the
\* events in the order they happen; "enter"/"exit" mark the call frames.
RECURSIVE Invoke(_, _, _, _, _)
Invoke(handler, d, allowed, update, out) ==
  LET kind == handler[d] IN
  IF d = Len(handler)
  THEN LET call == CallHandler(kind, out)
       IN  [ret |-> call.err, panicked |-> call.panicked,
            events |-> <<Ev(d, kind, "enter"), Ev(d, kind, "run"), Ev(d, kind, "exit")>>]
  ELSE IF kind = "Security" /\ SecurityCheck(allowed, update) # Nil
  THEN [ret |-> SecurityCheck(allowed, update), panicked |-> FALSE,
        events |-> <<Ev(d, kind, "enter"), Ev(d, kind, "rejected"), Ev(d, kind, "exit")>>]
  ELSE LET r == Invoke(handler, d + 1, allowed, update, out)
           a == AfterNext(kind, d, r)
       IN  [ret |-> a.ret, panicked |-> a.panicked,
            events |-> <<Ev(d, kind, "enter")>> \o BeforeNext(kind, d) \o r.events
                       \o a.events \o <<Ev(d, kind, "exit")>>]

NoCall == [called |-> FALSE]

MwInit ==
  /\ mwList = <<>>
  /\ allowedIDs = {}
  /\ composed = <<>>
  /\ mwRes = NoCall

\* The arguments the application is about to give to ComposeMiddleware and
\* to SecurityMiddleware.
MwInputs ==
  /\ mwList \in MwLists
  /\ allowedIDs \in (IF \E i \in 1..Len(mwList) : mwList[i] = "Security"
                     THEN SUBSET ChatIds ELSE {{}})
  /\ composed = <<>>
  /\ mwRes = NoCall

\* The application builds its handler: ComposeMiddleware(h, mws...).
MwCompose ==
  /\ composed = <<>>
  /\ composed' = ComposeMiddleware(Terminal("h1"), mwList)
  /\ UNCHANGED <<mwList, allowedIDs, mwRes, notMw>>

MwUpdates ==
  {[UpdateID |-> 0, Message |-> m] :
     m \in {NoMessage} \cup
           [Text : {<<>>}, Document : {FALSE}, Animation : {FALSE}, ChatID : ChatIds]}

\* One call of the composed handler; mwRes records it until the caller has
\* taken the result.
MwInvoke ==
  /\ ~mwRes.called
  /\ composed # <<>>
  /\ \E u \in MwUpdates, out \in Outcomes :
       LET r == Invoke(composed, 1, allowedIDs, u, out)
       IN  mwRes' = [called |-> TRUE, update |-> u, out |-> out, ret |-> r.ret,
                     panicked |-> r.panicked, events |-> r.events]
  /\ UNCHANGED <<mwList, allowedIDs, composed, notMw>>

MwReturn ==
  /\ mwRes.called
  /\ mwRes' = NoCall
  /\ UNCHANGED <<mwList, allowedIDs, composed, notMw>>

\* ------------------------------------------------------------------------
\* Poller
\* ------------------------------------------------------------------------
\* The messages of the updates the transport hands to the poller: none, or a
\* command text.
PollMessages ==
  {NoMessage,
   [Text |-> <<"/", "a">>, Document |-> FALSE, Animation |-> FALSE, ChatID |-> 1]}
\* What a successful GetUpdates call may return, as the update_ids of the
\* updates. The poller reads only the UpdateID of an update; the message of
\* an update is drawn when the update is handed to Route.
Batches == UNION {[1..k -> 0..MaxId] : k \in 0..MaxBatch}

Max(a, b) == IF a >= b THEN a ELSE b

StrictlyIncreasing(b) == \A i \in 1..(Len(b) - 1) : b[i] < b[i + 1]

\* ctx.Done() of loop i: its own cancel function was called or the context
\* given to Start was cancelled.
Done(i) == loops[i].done \/ parentDone

NextOffset_OnSuccessOnly(cur, update, ret) ==
  IF ret = Nil THEN update.UpdateID + 1 ELSE cur

\* `p.offset = update.UpdateID + 1`, whatever Route returned.
NextOffset(cur, update, ret) == update.UpdateID + 1

\* NewPoller: cursor 0, no cancel function, no goroutine. The router given to
\* it has a command and a document handler registered.
PollerInit ==
  /\ offset = 0
  /\ cancel = 0
  /\ parentDone = FALSE
  /\ loops = <<>>
  /\ maxRouted = -1
  /\ lastFetched = -1
  /\ monotone = TRUE
  /\ lastOut = "none"
  /\ fetchArg = -1
  /\ fetchedAfterCancel = FALSE
  /\ failArg = -1

RouterOfPoller ==
  /\ commandHandlers = (<<"/", "a">> :> "h1")
  /\ callbackHandlers = EmptyMap
  /\ documentHandler = "h2"
  /\ animationHandler = Nil
  /\ routeRes = NoRoute
  /\ lastReg = NoReg

\* pollingImpl.Start: derive a context, store its cancel function, launch the
\* goroutine (which creates its ticker and waits in the select).
Start ==
  /\ loops' = Append(loops, [pc |-> "select", done |-> FALSE, tick |-> FALSE,
                             batch |-> <<>>])
  /\ cancel' = Len(loops) + 1
  /\ UNCHANGED <<offset, parentDone, pollHist, notPoll>>

\* Start called on a poller that was never started.
StartOnce ==
  /\ loops = <<>>
  /\ Start

\* Start called at any time, also while a loop runs or after Stop.
StartAny ==
  /\ Len(loops) < MaxStarts
  /\ Start

Stop_NoNilCheck ==
  /\ cancel # 0
  /\ loops' = [loops EXCEPT ![cancel].done = TRUE]
  /\ UNCHANGED <<offset, cancel, parentDone, pollHist, notPoll>>

\* pollingImpl.Stop: call p.cancel if it is set.
Stop ==
  /\ loops' = IF cancel # 0
              THEN [loops EXCEPT ![cancel].done = TRUE]
              ELSE loops
  /\ UNCHANGED <<offset, cancel, parentDone, pollHist, notPoll>>

\* The owner of the context given to Start cancels it.
CancelParent ==
  /\ ~parentDone
  /\ parentDone' = TRUE
  /\ UNCHANGED <<offset, cancel, loops, pollHist, notPoll>>

\* The ticker of a running loop delivers a tick; ticker.C holds one tick.
Tick(i) ==
  /\ loops[i].pc # "exited"
  /\ ~loops[i].tick
  /\ loops' = [loops EXCEPT ![i].tick = TRUE]
  /\ UNCHANGED <<offset, cancel, parentDone, pollHist, notPoll>>

LoopExit_Preemptive(i) ==
  /\ loops[i].pc # "exited"
  /\ Done(i)
  /\ loops' = [loops EXCEPT ![i].pc = "exited", ![i].tick = FALSE]
  /\ UNCHANGED <<offset, cancel, parentDone, pollHist, notPoll>>

\* select, case <-ctx.Done(): the goroutine returns.
LoopExit(i) ==
  /\ loops[i].pc = "select"
  /\ Done(i)
  /\ loops' = [loops EXCEPT ![i].pc = "exited", ![i].tick = FALSE]
  /\ UNCHANGED <<offset, cancel, parentDone, pollHist, notPoll>>

\* select, case <-ticker.C: the goroutine takes the tick and calls
\* GetUpdates with the cursor. select takes any case that is ready.
LoopFetch(i) ==
  /\ loops[i].pc = "select"
  /\ loops[i].tick
  /\ loops' = [loops EXCEPT ![i].pc = "fetching", ![i].tick = FALSE]
  /\ fetchArg' = offset
  /\ fetchedAfterCancel' = (fetchedAfterCancel \/ Done(i))
  /\ UNCHANGED <<offset, cancel, parentDone, maxRouted, lastFetched, monotone,
                 lastOut, failArg, notPoll>>

FetchError_GiveUp(i) ==
  /\ loops[i].pc = "fetching"
  /\ loops' = [loops EXCEPT ![i].pc = "exited"]
  /\ fetchArg' = -1
  /\ failArg' = fetchArg
  /\ UNCHANGED <<offset, cancel, parentDone, maxRouted, lastFetched, monotone,
                 lastOut, fetchedAfterCancel, notPoll>>

\* GetUpdates returns an error: logged, `continue`, back to the select.
FetchError(i) ==
  /\ loops[i].pc = "fetching"
  /\ loops' = [loops EXCEPT ![i].pc = "select"]
  /\ fetchArg' = -1
  /\ failArg' = fetchArg
  /\ UNCHANGED <<offset, cancel, parentDone, maxRouted, lastFetched, monotone,
                 lastOut, fetchedAfterCancel, notPoll>>

\* GetUpdates returns a batch, one of bs.
FetchBatchOf(i, bs) ==
  /\ loops[i].pc = "fetching"
  /\ \E b \in bs :
       /\ loops' = [loops EXCEPT ![i].pc = IF b = <<>> THEN "select" ELSE "routing",
                                 ![i].batch = b]
       /\ monotone' = (monotone /\ StrictlyIncreasing(b)
                       /\ (b # <<>> => lastFetched < b[1]))
       /\ lastFetched' = IF b = <<>> THEN lastFetched
                         ELSE Max(lastFetched, b[Len(b)])
  /\ fetchArg' = -1
  /\ failArg' = -1
  /\ UNCHANGED <<offset, cancel, parentDone, maxRouted, lastOut,
                 fetchedAfterCancel, notPoll>>

\* GetUpdates returns a batch, any the transport can return.
FetchBatch(i) == FetchBatchOf(i, Batches)

\* GetUpdates of a transport that holds one update, update_id 0, or none.
FewBatches == {<<>>, <<0>>}
FetchFew(i) == FetchBatchOf(i, FewBatches)

\* How the handling of a routed update went, as the poller's history keeps it.
HandlingOf(r, out) ==
  IF r.calls = <<>> THEN "nohandler"
  ELSE IF out \in Errors THEN "error" ELSE out

NextUpdate_Last(batch) == batch[Len(batch)]

\* `for _, update := range updates` takes the updates in slice order.
NextUpdate(batch) == Head(batch)

Remaining_BreakOnError(batch, ret) ==
  IF ret # Nil THEN <<>> ELSE Tail(batch)

\* The error of Route is logged and the range loop goes on with the rest of
\* the batch.
Remaining(batch, ret) == Tail(batch)

\* One turn of `for _, update := range updates`: Route, log its error, set
\* the cursor.
RouteNext(i) ==
  /\ loops[i].pc = "routing"
  /\ \E m \in PollMessages :
       LET u == [UpdateID |-> NextUpdate(loops[i].batch), Message |-> m] IN
       \E out \in OutcomesFor(u) :
         LET r == Route(commandHandlers, documentHandler, animationHandler, u, out)
             rest == Remaining(loops[i].batch, r.ret)
         IN  /\ offset' = NextOffset(offset, u, r.ret)
             /\ maxRouted' = Max(maxRouted, u.UpdateID)
             /\ lastOut' = HandlingOf(r, out)
             /\ loops' = [loops EXCEPT
                            ![i].batch = rest,
                            ![i].pc = IF rest = <<>> THEN "select" ELSE "routing"]
  /\ UNCHANGED <<cancel, parentDone, lastFetched, monotone, fetchArg,
                 fetchedAfterCancel, failArg, notPoll>>

Ticks == \E i \in 1..Len(loops) : Tick(i)
LoopExits == \E i \in 1..Len(loops) : LoopExit(i)
Fetches == \E i \in 1..Len(loops) : LoopFetch(i)
FetchErrors == \E i \in 1..Len(loops) : FetchError(i)
FetchBatches == \E i \in 1..Len(loops) : FetchBatch(i)
FetchesFew == \E i \in 1..Len(loops) : FetchFew(i)
Routes == \E i \in 1..Len(loops) : RouteNext(i)

\* ------------------------------------------------------------------------
\* Webhook receiver
\* ------------------------------------------------------------------------
Methods == {"POST", "GET", "PUT"}
\* Request bodies: one that cannot be read, and readable ones by content.
Bodies == {"unreadable", "not json", "[1]", "{\"update_id\":\"x\"}",
           "{}", "{\"update_id\":1}", "{\"update_id\":2,\"message\":{\"text\":\"/a\"}}"}
\* What the update callback does: it has no result; it may fail inside (and
\* report that by itself) or panic.
CallbackOutcomes == {"ok", "failed", "panic"}

\* ioutil.ReadAll(req.Body)
ReadAll(body) ==
  IF body = "unreadable" THEN [err |-> "read error", data |-> ""]
  ELSE [err |-> Nil, data |-> body]

\* json.Unmarshal(body, &update) into a core.Update
Unmarshal(data) ==
  CASE data = "{}" ->
         [err |-> Nil, update |-> [UpdateID |-> 0, Message |-> NoMessage]]
    [] data = "{\"update_id\":1}" ->
         [err |-> Nil, update |-> [UpdateID |-> 1, Message |-> NoMessage]]
    [] data = "{\"update_id\":2,\"message\":{\"text\":\"/a\"}}" ->
         [err |-> Nil,
          update |-> [UpdateID |-> 2,
                      Message |-> [Text |-> <<"/", "a">>, Document |-> FALSE,
                                   Animation |-> FALSE, ChatID |-> 0]]]
    [] OTHER -> [err |-> "decode error"]

Response(status, body, callbacks, logs, crashed) ==
  [status |-> status, body |-> body, callbacks |-> callbacks, logs |-> logs,
   crashed |-> crashed]

\* The response after the callback ran under WithRecovery. A panic that left
\* the handler function would end the request without any response.
Answer(status, body, callbacks, logs, rec) ==
  IF rec.escaped
  THEN Response(0, "", callbacks, logs \o rec.logs, TRUE)
  ELSE Response(status, body, callbacks, logs \o rec.logs, FALSE)

\* The handler function without the `return` after the 400 of a decode
\* failure: it goes on with the zero Update.
ServeHTTP_NoReturnAfter400(method, body, cb) ==
  IF method # "POST" THEN Response(405, "", <<>>, <<>>, FALSE)
  ELSE IF ReadAll(body).err # Nil
  THEN Response(400, "", <<>>, <<>>, FALSE)
  ELSE IF Unmarshal(ReadAll(body).data).err # Nil
  THEN Answer(400, "OK", <<[UpdateID |-> 0, Message |-> NoMessage]>>, <<>>,
              WithRecovery(CallHandler("updateHandler", cb)))
  ELSE Answer(200, "OK", <<Unmarshal(ReadAll(body).data).update>>, <<>>,
              WithRecovery(CallHandler("updateHandler", cb)))

\* The handler function ListenAndServe registers on "/": the response it
\* writes, the updates it hands to the callback and what it logs.
ServeHTTP(method, body, cb) ==
  IF method # "POST"
  THEN Response(405, "", <<>>, <<>>, FALSE)
  ELSE LET rd == ReadAll(body) IN
       IF rd.err # Nil
       THEN Response(400, "", <<>>,
                     <<[level |-> "error", msg |-> "Failed to read webhook request body"]>>,
                     FALSE)
       ELSE LET dec == Unmarshal(rd.data) IN
            IF dec.err # Nil
            THEN Response(400, "", <<>>,
                          <<[level |-> "error", msg |-> "Failed to unmarshal webhook update"]>>,
                          FALSE)
            ELSE Answer(200, "OK", <<dec.update>>,
                        <<[level |-> "info", msg |-> "Webhook update received"]>>,
                        WithRecovery(CallHandler("updateHandler", cb)))

Idle == [pc |-> "idle"]

\* `shutdownCtx, cancel := context.WithTimeout(context.Background(), 5*time.Second)`
ShutdownTimeout == 5

\* ListenAndServe has just been called: the server goroutine has not listened
\* yet, the caller is about to wait for ctx.
WebhookInit ==
  /\ conns = [c \in 1..MaxConn |-> Idle]
  /\ server = "none"
  /\ lsPc = "waiting"
  /\ ctxDone = FALSE
  /\ lsRet = "none"
  /\ shutdownClock = 0
  /\ acceptedAfter = "nothing"

\* The server is listening and ctx is not cancelled.
WebhookRunning ==
  /\ conns = [c \in 1..MaxConn |-> Idle]
  /\ server = "open"
  /\ lsPc = "waiting"
  /\ ctxDone = FALSE
  /\ lsRet = "none"
  /\ shutdownClock = 0
  /\ acceptedAfter = "nothing"

\* What had happened when a connection is accepted now.
AcceptedNow ==
  IF lsPc # "waiting" THEN "shutdown"
  ELSE IF ctxDone /\ acceptedAfter = "nothing" THEN "signal"
  ELSE acceptedAfter

\* The listener accepts connection c and the client sends a request on it,
\* one of the methods ms with one of the bodies bs.
RequestOf(c, ms, bs) ==
  /\ server = "open"
  /\ conns[c].pc = "idle"
  /\ \E m \in ms, b \in bs :
       conns' = [conns EXCEPT ![c] = [pc |-> "received", method |-> m, body |-> b]]
  /\ acceptedAfter' = AcceptedNow
  /\ UNCHANGED <<whLife, notWh>>

\* A client sends any request on connection c.
Request(c) == RequestOf(c, Methods, Bodies)

\* A client posts the update {} on connection c.
Post(c) == RequestOf(c, {"POST"}, {"{}"})

\* The server runs the handler function for the request of connection c.
Serve(c) ==
  /\ conns[c].pc = "received"
  /\ \E cb \in CallbackOutcomes :
       conns' = [conns EXCEPT ![c] =
                   [pc |-> "answered", method |-> conns[c].method,
                    body |-> conns[c].body, cb |-> cb,
                    resp |-> ServeHTTP(conns[c].method, conns[c].body, cb)]]
  /\ UNCHANGED <<whLife, acceptedAfter, notWh>>

\* The client has read the response; the connection takes the next request.
Close(c) ==
  /\ conns[c].pc = "answered"
  /\ conns' = [conns EXCEPT ![c] = Idle]
  /\ UNCHANGED <<whLife, acceptedAfter, notWh>>

\* The server goroutine: server.ListenAndServe() binds the address and serves.
ListenOk ==
  /\ server = "none" /\ lsPc = "waiting"
  /\ server' = "open"
  /\ UNCHANGED <<conns, lsPc, ctxDone, lsRet, shutdownClock, acceptedAfter, notWh>>

ListenFails_ReturnsError ==
  /\ server = "none" /\ lsPc = "waiting"
  /\ server' = "failed"
  /\ lsPc' = "returned"
  /\ lsRet' = "listen error"
  /\ UNCHANGED <<conns, ctxDone, shutdownClock, acceptedAfter, notWh>>

\* server.ListenAndServe() fails (address in use): the goroutine logs the
\* error and ends; the caller goes on waiting for ctx.
ListenFails ==
  /\ server = "none" /\ lsPc = "waiting"
  /\ server' = "failed"
  /\ UNCHANGED <<conns, lsPc, ctxDone, lsRet, shutdownClock, acceptedAfter, notWh>>

\* server.ListenAndServe() called after Shutdown: http.ErrServerClosed.
ListenAfterShutdown ==
  /\ server = "none" /\ lsPc # "waiting"
  /\ server' = "closed"
  /\ UNCHANGED <<conns, lsPc, ctxDone, lsRet, shutdownClock, acceptedAfter, notWh>>

\* The owner of ctx cancels it.
CancelCtx ==
  /\ ~ctxDone
  /\ ctxDone' = TRUE
  /\ UNCHANGED <<conns, server, lsPc, lsRet, shutdownClock, acceptedAfter, notWh>>

\* `<-ctx.Done()` returns; shutdownCtx is created and server.Shutdown is
\* called, which closes the listener first.
BeginShutdown ==
  /\ lsPc = "waiting" /\ ctxDone
  /\ lsPc' = "shutdown"
  /\ server' = IF server = "open" THEN "closed" ELSE server
  /\ shutdownClock' = 0
  /\ UNCHANGED <<conns, ctxDone, lsRet, acceptedAfter, notWh>>

\* No request is being served (Shutdown closes the connections that are not).
Drained == \A c \in 1..MaxConn : conns[c].pc # "received"

ShutdownResult_NoDeadline(drained, clock) ==
  IF drained THEN {Nil} ELSE {}

\* What server.Shutdown(shutdownCtx) can return now: nil once no request is
\* being served, shutdownCtx.Err() once the timeout has passed.
ShutdownResult(drained, clock) ==
  (IF drained THEN {Nil} ELSE {})
    \cup (IF clock >= ShutdownTimeout THEN {"context deadline exceeded"} ELSE {})

\* `return server.Shutdown(shutdownCtx)`
ShutdownReturns ==
  /\ lsPc = "shutdown"
  /\ \E r \in ShutdownResult(Drained, shutdownClock) :
       /\ lsRet' = r
       /\ lsPc' = "returned"
  /\ UNCHANGED <<conns, server, ctxDone, shutdownClock, acceptedAfter, notWh>>

\* One time unit passes while Shutdown waits. Shutdown polls several times
\* per time unit, so it returns before more time passes once it can; the
\* clock stops one unit after the timeout.
TimePasses ==
  /\ lsPc = "shutdown"
  /\ ShutdownResult(Drained, shutdownClock) = {}
  /\ shutdownClock <= ShutdownTimeout
  /\ shutdownClock' = shutdownClock + 1
  /\ UNCHANGED <<conns, server, lsPc, ctxDone, lsRet, acceptedAfter, notWh>>

Posts == \E c \in 1..MaxConn : Post(c)
Requests == \E c \in 1..MaxConn : Request(c)
Serves == \E c \in 1..MaxConn : Serve(c)
Closes == \E c \in 1..MaxConn : Close(c)

\* ------------------------------------------------------------------------
\* MemoryCache
\* ------------------------------------------------------------------------
CacheKeys == {"k1", "k2"}
CacheValues == {"v1", "v2"}
Absent == "absent"
KeyNotFound == "key not found"
Threads == 1..MaxThreads

\* What a method returns: Get a value and an error, Set and Delete an error.
Result(val, err) == [val |-> val, err |-> err]
NoCacheCall == [pc |-> "idle", op |-> Nil, key |-> Nil, value |-> Nil,
                ret |-> Nil, exp |-> Nil]

\* NewMemoryCache: an empty map, an unlocked mutex.
CacheInit ==
  /\ mcData = [k \in CacheKeys |-> Absent]
  /\ mu = [w |-> 0, r |-> {}]
  /\ calls = [t \in Threads |-> NoCacheCall]
  /\ abs = [k \in CacheKeys |-> Absent]

LockKind_DeleteReads(op) == IF op \in {"Get", "Delete"} THEN "RLock" ELSE "Lock"

\* Set and Delete take mc.mu.Lock(), Get takes mc.mu.RLock().
LockKind(op) == IF op = "Get" THEN "RLock" ELSE "Lock"

\* sync.RWMutex: Lock returns when no goroutine holds the mutex, RLock when no
\* goroutine holds the write lock. (A reader that arrives while a writer
\* waits may or may not get in before it; both orders are behaviours here.)
CanLock(m) == m.w = 0 /\ m.r = {}
CanRLock(m) == m.w = 0

\* A whole method applied to a map m: the map it leaves and what it returns.
Apply(m, c) ==
  CASE c.op = "Set" ->
         [map |-> [m EXCEPT ![c.key] = c.value], ret |-> Result(Nil, Nil)]
    [] c.op = "Get" ->
         [map |-> m,
          ret |-> IF m[c.key] = Absent THEN Result(Nil, KeyNotFound)
                  ELSE Result(m[c.key], Nil)]
    [] c.op = "Delete" ->
         IF m[c.key] = Absent
         THEN [map |-> m, ret |-> Result(Nil, KeyNotFound)]
         ELSE [map |-> [m EXCEPT ![c.key] = Absent], ret |-> Result(Nil, Nil)]

\* A goroutine calls Set, Get or Delete and goes for the lock.
CacheCall(t) ==
  /\ calls[t].pc = "idle"
  /\ \E k \in CacheKeys :
       \/ \E v \in CacheValues :
            calls' = [calls EXCEPT ![t] = [NoCacheCall EXCEPT
                        !.pc = "locking", !.op = "Set", !.key = k, !.value = v]]
       \/ \E op \in {"Get", "Delete"} :
            calls' = [calls EXCEPT ![t] = [NoCacheCall EXCEPT
                        !.pc = "locking", !.op = op, !.key = k]]
  /\ UNCHANGED <<mcData, mu, abs, notCache>>

\* mc.mu.Lock() or mc.mu.RLock() returns.
Acquire(t) ==
  /\ calls[t].pc = "locking"
  /\ IF LockKind(calls[t].op) = "Lock"
     THEN CanLock(mu) /\ mu' = [mu EXCEPT !.w = t]
     ELSE CanRLock(mu) /\ mu' = [mu EXCEPT !.r = @ \cup {t}]
  /\ calls' = [calls EXCEPT ![t].pc = "locked",
                            ![t].exp = Apply(abs, calls[t]).ret]
  /\ abs' = Apply(abs, calls[t]).map
  /\ UNCHANGED <<mcData, notCache>>

\* Set: mc.data[key] = value; return nil.
SetBody(t) ==
  /\ calls[t].pc = "locked" /\ calls[t].op = "Set"
  /\ mcData' = [mcData EXCEPT ![calls[t].key] = calls[t].value]
  /\ calls' = [calls EXCEPT ![t].pc = "deferred", ![t].ret = Result(Nil, Nil)]
  /\ UNCHANGED <<mu, abs, notCache>>

\* Get: val, exists := mc.data[key]; return the value or "key not found".
GetBody(t) ==
  /\ calls[t].pc = "locked" /\ calls[t].op = "Get"
  /\ calls' = [calls EXCEPT
                 ![t].pc = "deferred",
                 ![t].ret = IF mcData[calls[t].key] = Absent
                            THEN Result(Nil, KeyNotFound)
                            ELSE Result(mcData[calls[t].key], Nil)]
  /\ UNCHANGED <<mcData, mu, abs, notCache>>

\* Delete: `if _, exists := mc.data[key]; !exists` returns "key not found".
DeleteCheck(t) ==
  /\ calls[t].pc = "locked" /\ calls[t].op = "Delete"
  /\ calls' = IF mcData[calls[t].key] = Absent
              THEN [calls EXCEPT ![t].pc = "deferred",
                                 ![t].ret = Result(Nil, KeyNotFound)]
              ELSE [calls EXCEPT ![t].pc = "checked"]
  /\ UNCHANGED <<mcData, mu, abs, notCache>>

\* Delete: delete(mc.data, key); return nil.
DeleteRemove(t) ==
  /\ calls[t].pc = "checked"
  /\ mcData' = [mcData EXCEPT ![calls[t].key] = Absent]
  /\ calls' = [calls EXCEPT ![t].pc = "deferred", ![t].ret = Result(Nil, Nil)]
  /\ UNCHANGED <<mu, abs, notCache>>

\* The deferred Unlock or RUnlock runs and the method returns to its caller.
Release(t) ==
  /\ calls[t].pc = "deferred"
  /\ mu' = IF LockKind(calls[t].op) = "Lock"
           THEN [mu EXCEPT !.w = 0]
           ELSE [mu EXCEPT !.r = @ \ {t}]
  /\ calls' = [calls EXCEPT ![t] = NoCacheCall]
  /\ UNCHANGED <<mcData, abs, notCache>>

CacheCalls == \E t \in Threads : CacheCall(t)
Acquires == \E t \in Threads : Acquire(t)
SetBodies == \E t \in Threads : SetBody(t)
GetBodies == \E t \in Threads : GetBody(t)
DeleteChecks == \E t \in Threads : DeleteCheck(t)
DeleteRemoves == \E t \in Threads : DeleteRemove(t)
Releases == \E t \in Threads : Release(t)

InitAll == RouterInit /\ MwInit /\ PollerInit /\ WebhookInit /\ CacheInit

InitRouter == InitAll
NextRouter ==
  \/ RegisterCommand
  \/ RegisterCallback
  \/ RegisterDocument
  \/ RegisterAnimation
  \/ DoRoute
  \/ RouteReturn
SpecRouter == InitRouter /\ [][NextRouter]_vars

\* The router with its registrations recorded, routing the updates that
\* registered keys can match.
NextRegistry ==
  \/ NotedCommand
  \/ NotedCallback
  \/ NotedDocument
  \/ NotedAnimation
  \/ DoRouteKeyed
  \/ RouteReturn
SpecRegistry == InitRouter /\ [][NextRegistry]_vars

InitMw == RouterInit /\ MwInputs /\ PollerInit /\ WebhookInit /\ CacheInit
NextMw ==
  \/ MwCompose
  \/ MwInvoke
  \/ MwReturn
SpecMw == InitMw /\ [][NextMw]_vars

\* The webhook server serving requests.
InitWebhook == RouterInit /\ MwInit /\ PollerInit /\ WebhookRunning /\ CacheInit
NextWebhook ==
  \/ Requests
  \/ Serves
  \/ Closes
SpecWebhook == InitWebhook /\ [][NextWebhook]_vars

\* One ListenAndServe call from its start to its return, with clients that
\* post updates. The caller's goroutine is scheduled, Shutdown runs and time
\* passes; a request handler may stay busy for ever.
InitServer == InitAll
NextServer ==
  \/ ListenOk
  \/ ListenFails
  \/ ListenAfterShutdown
  \/ CancelCtx
  \/ BeginShutdown
  \/ ShutdownReturns
  \/ TimePasses
  \/ Posts
  \/ Serves
  \/ Closes
SpecServer ==
  /\ InitServer /\ [][NextServer]_vars
  /\ WF_vars(BeginShutdown) /\ WF_vars(ShutdownReturns) /\ WF_vars(TimePasses)

\* One poller, started once, fed by an arbitrary transport.
InitPoller == RouterOfPoller /\ MwInit /\ PollerInit /\ WebhookInit /\ CacheInit
NextPoller ==
  \/ StartOnce
  \/ Stop
  \/ CancelParent
  \/ Ticks
  \/ LoopExits
  \/ Fetches
  \/ FetchErrors
  \/ FetchBatches
  \/ Routes
SpecPoller == InitPoller /\ [][NextPoller]_vars

\* One poller whose owner calls Start and Stop in any order, fed by a
\* transport that holds at most one update.
NextRestart ==
  \/ StartAny
  \/ Stop
  \/ Ticks
  \/ LoopExits
  \/ Fetches
  \/ FetchErrors
  \/ FetchesFew
  \/ Routes
SpecRestart == InitPoller /\ [][NextRestart]_vars

\* One poller, started once, under a fair scheduler: a call of GetUpdates
\* returns, a call of Route returns, and the select, which picks at random
\* among its ready cases, does not pass over a ready ctx.Done() forever.
NextStopping ==
  \/ StartOnce
  \/ Stop
  \/ CancelParent
  \/ Ticks
  \/ LoopExits
  \/ Fetches
  \/ FetchErrors
  \/ FetchesFew
  \/ Routes
SpecStopping ==
  /\ InitPoller /\ [][NextStopping]_vars
  /\ SF_vars(LoopExits)
  /\ WF_vars(FetchErrors \/ FetchesFew)
  /\ WF_vars(Routes)

\* One cache shared by goroutines that call Set, Get and Delete at any time.
InitCache == InitAll
NextCache ==
  \/ CacheCalls
  \/ Acquires
  \/ SetBodies
  \/ GetBodies
  \/ DeleteChecks
  \/ DeleteRemoves
  \/ Releases
SpecCache == InitCache /\ [][NextCache]_vars

\* ------------------------------------------------------------------------
\* Router: properties
\* ------------------------------------------------------------------------
Routed == routeRes.called
HasMessage == Routed /\ routeRes.update.Message # NoMessage
RoutedText == routeRes.update.Message.Text

\* C2: when the handler Route selects panics, Route returns a non-nil error
\* and the panic does not leave Route.
C2_PanicReturnsError ==
  (Routed /\ routeRes.calls # <<>> /\ routeRes.out = "panic")
    => (routeRes.ret # Nil /\ ~routeRes.escaped)

\* C6: Route of an update without message returns nil and invokes no handler,
\* whatever the dispatch table holds.
C6_NoMessageNoHandler ==
  (Routed /\ routeRes.update.Message = NoMessage)
    => (routeRes.ret = Nil /\ routeRes.calls = <<>> /\ ~routeRes.escaped)

C6_Witness ==
  /\ Routed /\ routeRes.update.Message = NoMessage
  /\ DOMAIN commandHandlers # {} /\ documentHandler # Nil /\ animationHandler # Nil
  /\ routeRes.ret = Nil

\* C7: for a text that begins with '/', Route invokes exactly one handler, the
\* one registered for the whole text, when the whole text is a registered key,
\* and otherwise invokes none and returns nil.
C7_ExactCommandMatch ==
  (HasMessage /\ IsCommandText(RoutedText))
    => IF RoutedText \in DOMAIN commandHandlers
       THEN routeRes.calls = <<commandHandlers[RoutedText]>>
       ELSE routeRes.calls = <<>> /\ routeRes.ret = Nil

C7_Witness ==
  /\ HasMessage /\ RoutedText = <<"/", "a", " ">>
  /\ <<"/", "a">> \in DOMAIN commandHandlers
  /\ routeRes.calls = <<>> /\ routeRes.ret = Nil

\* C8: for a message without leading-'/' text that carries only a document,
\* a registered document handler is invoked exactly once; with neither a
\* document nor an animation handler nothing is invoked and Route returns nil.
C8_DocumentOnly ==
  (HasMessage /\ ~IsCommandText(RoutedText)
     /\ routeRes.update.Message.Document /\ ~routeRes.update.Message.Animation)
    => /\ documentHandler # Nil => routeRes.calls = <<documentHandler>>
       /\ (documentHandler = Nil /\ animationHandler = Nil)
            => (routeRes.calls = <<>> /\ routeRes.ret = Nil)

C8_Witness ==
  /\ HasMessage /\ ~IsCommandText(RoutedText)
  /\ routeRes.update.Message.Document /\ ~routeRes.update.Message.Animation
  /\ documentHandler = "h2" /\ routeRes.calls = <<"h2">>

\* The handlers registered in the dispatch table Route reads.
Registered ==
  {commandHandlers[k] : k \in DOMAIN commandHandlers}
    \cup ({documentHandler, animationHandler} \ {Nil})

\* C15: one call of Route invokes at most one handler, a registered one, and
\* invokes it at most once, also when the message carries a text, a document
\* and an animation together.
C15_AtMostOneHandler ==
  Routed =>
    /\ Len(routeRes.calls) <= 1
    /\ \A i \in 1..Len(routeRes.calls) : routeRes.calls[i] \in Registered

C15_Witness ==
  /\ HasMessage
  /\ RoutedText = <<"a">>
  /\ routeRes.update.Message.Document /\ routeRes.update.Message.Animation
  /\ documentHandler = "h1" /\ animationHandler = "h2"
  /\ DOMAIN commandHandlers # {}
  /\ routeRes.calls = <<"h1">>

\* The entry of the dispatch table a registration method writes.
Slot(kind, key) ==
  CASE kind = "command" -> MapGet(commandHandlers, key)
    [] kind = "callback" -> MapGet(callbackHandlers, key)
    [] kind = "document" -> documentHandler
    [] kind = "animation" -> animationHandler
Slots ==
  ({"command"} \X CommandKeys) \cup ({"callback"} \X CallbackKeys)
    \cup {<<"document", <<>>>>, <<"animation", <<>>>>}
\* The Route call in progress is for the key of the last registration.
RoutedKeyOfLastReg ==
  Routed /\ ForKeyOf(lastReg, documentHandler, routeRes.update)

\* C14: a registration overwrites the entry of its key and nothing else, so
\* Route invokes for a key the handler of the last registration for it and
\* never the handler that registration replaced; registering again the handler
\* a key already has leaves the dispatch table as it was.
C14_LastRegistrationWins ==
  /\ [](lastReg # NoReg =>
          /\ Slot(lastReg.kind, lastReg.key) = lastReg.handler
          /\ RoutedKeyOfLastReg => routeRes.calls = <<lastReg.handler>>)
  /\ [][/\ (lastReg' # lastReg /\ lastReg' # NoReg) =>
            \A sl \in Slots :
              (sl # <<lastReg'.kind, lastReg'.key>>) =>
                Slot(sl[1], sl[2])' = Slot(sl[1], sl[2])
        /\ routerTable' # routerTable =>
            (lastReg' # NoReg /\ lastReg'.replaced # lastReg'.handler)]_vars

C14_Witness ==
  /\ lastReg = Reg("command", <<"/", "a">>, "h2", "h1")
  /\ HasMessage /\ RoutedText = <<"/", "a">>
  /\ routeRes.calls = <<"h2">>

\* The error-level entries WithRecovery wrote during the Route call.
PanicLogs ==
  Cardinality({i \in 1..Len(routeRes.logs) :
                 /\ routeRes.logs[i].level = "error"
                 /\ routeRes.logs[i].msg = "Panic recovered"})

\* C17: WithRecovery never lets a panic of the function it runs reach its
\* caller, and it writes exactly one error-level log entry when the function
\* panics and none when the function returns (with or without an error).
C17_RecoveryLogsOnce ==
  (Routed /\ routeRes.calls # <<>>) =>
    /\ ~routeRes.escaped
    /\ PanicLogs = (IF routeRes.out = "panic" THEN 1 ELSE 0)
    /\ routeRes.out = "ok" =>
         \A i \in 1..Len(routeRes.logs) : routeRes.logs[i].level # "error"

C17_Witness ==
  /\ Routed /\ routeRes.calls = <<"h1">>
  /\ routeRes.out = "panic"
  /\ ~routeRes.escaped
  /\ PanicLogs = 1

\* The Route call in progress is for a message without a command text.
RoutedContent == HasMessage /\ ~IsCommandText(RoutedText)
DocumentCase ==
  routeRes.update.Message.Document /\ documentHandler # Nil
AnimationCase ==
  /\ routeRes.update.Message.Animation /\ animationHandler # Nil
  /\ ~DocumentCase

\* C22: for a message without command text the document handler comes first:
\* with a document and a document handler only that handler is invoked, also
\* when an animation and its handler are there too; the animation handler is
\* invoked exactly when the message has an animation, an animation handler is
\* registered and the document case does not apply; otherwise none is.
C22_DocumentBeforeAnimation ==
  RoutedContent =>
    /\ DocumentCase => routeRes.calls = <<documentHandler>>
    /\ AnimationCase => routeRes.calls = <<animationHandler>>
    /\ (~DocumentCase /\ ~AnimationCase) => routeRes.calls = <<>>
    /\ documentHandler # animationHandler =>
         ((routeRes.calls = <<animationHandler>>) <=> AnimationCase)

C22_Witness ==
  /\ RoutedContent
  /\ routeRes.update.Message.Document /\ routeRes.update.Message.Animation
  /\ documentHandler = "h2" /\ animationHandler = "h1"
  /\ routeRes.calls = <<"h2">>

\* The text of the routed message begins with '/'.
SlashText == HasMessage /\ RoutedText # <<>> /\ Head(RoutedText) = "/"

\* C23: a message whose text begins with '/' is dispatched by its text only:
\* the document and animation handlers are not tried, whatever payloads the
\* message carries and whatever is registered for them; when no command
\* handler is registered for the text, no handler is invoked, Route warns and
\* returns nil.
C23_SlashTextNeverToPayloadHandler ==
  SlashText =>
    /\ \A i \in 1..Len(routeRes.calls) :
         /\ RoutedText \in DOMAIN commandHandlers
         /\ routeRes.calls[i] = commandHandlers[RoutedText]
    /\ RoutedText \notin DOMAIN commandHandlers =>
         /\ routeRes.calls = <<>>
         /\ routeRes.ret = Nil
         /\ routeRes.logs =
              <<[level |-> "warn", msg |-> "No handler registered for command"]>>

C23_Witness ==
  /\ SlashText
  /\ RoutedText = <<"/">>
  /\ routeRes.update.Message.Document /\ routeRes.update.Message.Animation
  /\ documentHandler = "h1" /\ animationHandler = "h2"
  /\ DOMAIN commandHandlers = {<<"/", "a">>}
  /\ routeRes.calls = <<>> /\ routeRes.ret = Nil

\* C25: when the handler Route selects returns an error, Route returns that
\* error (and has logged one error entry); when the handler returns nil, Route
\* returns nil.
C25_HandlerErrorReturned ==
  (Routed /\ routeRes.calls # <<>>) =>
    /\ routeRes.out \in Errors =>
         /\ routeRes.ret = routeRes.out
         /\ \E i \in 1..Len(routeRes.logs) : routeRes.logs[i].level = "error"
    /\ routeRes.out = "ok" => routeRes.ret = Nil

C25_Witness ==
  /\ RoutedContent
  /\ routeRes.calls = <<"h1">>
  /\ routeRes.out = "e2"
  /\ routeRes.ret = "e2"

\* The handlers that are registered with HandleCallback and nowhere else.
CallbackOnly ==
  {callbackHandlers[k] : k \in DOMAIN callbackHandlers} \ Registered

IsEnter(e) == e.ev = "enter"
IsExit(e) == e.ev = "exit"
Enters == SelectSeq(mwRes.events, IsEnter)
Exits == SelectSeq(mwRes.events, IsExit)
Rejected == \E i \in 1..Len(mwRes.events) : mwRes.events[i].ev = "rejected"
\* Position of the first event `what` of a stage, 0 when there is none.
Pos(stage, what) ==
  LET is == {i \in 1..Len(mwRes.events) :
               mwRes.events[i].stage = stage /\ mwRes.events[i].ev = what}
  IN  IF is = {} THEN 0 ELSE CHOOSE i \in is : \A j \in is : i <= j
Stages == mwList \o <<"h1">>

\* C3: one call of ComposeMiddleware(H, m1..mn) enters m1, m2, ..., mn, H in
\* list order (all of them unless a stage refuses to go on), leaves them in
\* the reverse order, and for [Logging, Auth, Timing, Recovery] the Logging
\* pre-call log comes before the Auth decision, the Timing start and H.
C3_ListOrderIsCallOrder ==
  mwRes.called =>
    /\ Len(Enters) <= Len(Stages)
    /\ \A i \in 1..Len(Enters) :
         Enters[i].depth = i /\ Enters[i].stage = Stages[i]
    /\ ~Rejected => Len(Enters) = Len(Stages)
    /\ Len(Exits) = Len(Enters)
    /\ \A i \in 1..Len(Exits) : Exits[i].depth = Len(Enters) + 1 - i
    /\ mwList = <<"Logging", "Auth", "Timing", "Recovery">> =>
         /\ 0 < Pos("Logging", "Received update")
         /\ Pos("Logging", "Received update") < Pos("Auth", "Auth check passed")
         /\ Pos("Auth", "Auth check passed") < Pos("Timing", "start")
         /\ Pos("Timing", "start") < Pos("h1", "run")

C3_Witness ==
  /\ mwRes.called
  /\ mwList = <<"Logging", "Auth", "Timing", "Recovery">>
  /\ Pos("h1", "run") > 0
  /\ mwRes.events[Len(mwRes.events)] = Ev(1, "Logging", "exit")

\* C9: a handler wrapped by RecoveryMiddleware whose downstream handler panics
\* returns a non-nil error, and the panic does not reach the caller.
C9_RecoveryReturnsError ==
  (mwRes.called /\ mwList = <<"Recovery">> /\ mwRes.out = "panic")
    => (mwRes.ret # Nil /\ ~mwRes.panicked)

Entered(d) ==
  \E i \in 1..Len(mwRes.events) :
    mwRes.events[i].depth = d /\ mwRes.events[i].ev = "enter"
EnterCount(d) ==
  Cardinality({i \in 1..Len(mwRes.events) :
                 mwRes.events[i].depth = d /\ mwRes.events[i].ev = "enter"})
Admitted ==
  /\ mwRes.update.Message # NoMessage
  /\ mwRes.update.Message.ChatID \in allowedIDs

\* C13: a SecurityMiddleware stage built with the allowed set S calls its
\* downstream handler (once) exactly when the update has a message whose chat
\* id is in S; otherwise the downstream handler is not entered and the stage
\* returns a non-nil error.
C13_SecurityGate ==
  mwRes.called =>
    /\ \A d \in 1..Len(mwList) :
         (mwList[d] = "Security" /\ Entered(d)) =>
           /\ Entered(d + 1) <=> Admitted
           /\ EnterCount(d + 1) <= 1
    /\ (mwList # <<>> /\ mwList[1] = "Security" /\ ~Admitted) =>
         /\ mwRes.ret \in {"security: no message in update", "security: access denied"}
         /\ ~mwRes.panicked
         /\ Pos("h1", "run") = 0

C13_Witness ==
  /\ mwRes.called
  /\ mwList = <<"Security", "Logging">>
  /\ allowedIDs = {1}
  /\ mwRes.update.Message # NoMessage
  /\ mwRes.update.Message.ChatID = 2
  /\ mwRes.ret = "security: access denied"
  /\ ~Entered(2)

\* The depth of the stage that refused to go on, 0 when none did.
RejectDepth ==
  LET is == {i \in 1..Len(mwRes.events) : mwRes.events[i].ev = "rejected"}
  IN  IF is = {} THEN 0 ELSE mwRes.events[CHOOSE i \in is : TRUE].depth

\* C28: when a stage of a composed chain returns an error without calling its
\* next handler, no later stage and not the terminal handler runs for that
\* update, and the composed handler returns that very error through every
\* outer Logging, RequestLogging, Timing, Tracing, Auth and Recovery stage.
C28_ShortCircuitKeepsError ==
  (mwRes.called /\ Rejected) =>
    /\ \A i \in 1..Len(mwRes.events) : mwRes.events[i].depth <= RejectDepth
    /\ Pos("h1", "run") = 0
    /\ Len(Enters) = RejectDepth
    /\ mwRes.ret = SecurityCheck(allowedIDs, mwRes.update)
    /\ mwRes.ret # Nil
    /\ ~mwRes.panicked

C28_Witness ==
  /\ mwRes.called
  /\ mwList = <<"Recovery", "Logging", "Security", "Timing">>
  /\ Rejected /\ RejectDepth = 3
  /\ mwRes.ret = "security: no message in update"
  /\ Pos("h1", "run") = 0

\* ------------------------------------------------------------------------
\* Poller: properties
\* ------------------------------------------------------------------------
\* C1: while the fetched update_ids are strictly increasing, the cursor is the
\* largest update_id routed so far plus 1, whether the handlers succeeded,
\* failed or panicked, and a fetch never asks again for an update that was
\* routed, its handling failed or not.
C1_CursorIsMaxRoutedPlusOne ==
  /\ (monotone /\ maxRouted >= 0) => offset = maxRouted + 1
  /\ \A i \in 1..Len(loops) :
       (loops[i].pc = "fetching" /\ monotone) => fetchArg > maxRouted

C1_Witness ==
  /\ monotone /\ maxRouted >= 1
  /\ lastOut = "panic"
  /\ loops[1].pc = "fetching" /\ fetchArg = maxRouted + 1

\* C10: once the cancellation signal of a polling loop has fired, the loop
\* makes no further GetUpdates call.
C10_NoFetchAfterCancel == ~fetchedAfterCancel

\* The step in which loop i hands the head of its batch to Route.
RoutesHead(i) ==
  /\ i \in 1..Len(loops)
  /\ loops[i].pc = "routing"
  /\ loops'[i].batch # loops[i].batch

\* C11: whatever batches the transport returns, a polling loop never hands to
\* Route an update whose update_id is below the cursor, and the cursor never
\* moves backwards.
C11_NeverRoutesBelowCursor ==
  [][\A i \in 1..Len(loops) :
       RoutesHead(i) => (Head(loops[i].batch) >= offset /\ offset' >= offset)]_vars

\* The loop can go on: a goroutine leaves only through ctx.Done(), what is
\* left of a batch can be routed, a pending tick can be taken.
GoesOn(i) ==
  /\ loops[i].pc = "exited" => Done(i)
  /\ loops[i].batch # <<>> => (loops[i].pc = "routing" /\ ENABLED RouteNext(i))
  /\ (loops[i].pc = "select" /\ loops[i].tick) => ENABLED LoopFetch(i)
  /\ (loops[i].pc = "select" /\ ~loops[i].tick) => ENABLED Tick(i)

\* C16: when the handling of a routed update fails (Route returns an error)
\* or the handler panics, the loop keeps the rest of the batch and routes it,
\* and it goes back to the select, where it fetches again on a later tick
\* unless it was cancelled.
C16_BadUpdateDoesNotStopLoop ==
  /\ [](\A i \in 1..Len(loops) : lastOut \in {"error", "panic"} => GoesOn(i))
  /\ [][\A i \in 1..Len(loops) :
          (RoutesHead(i) /\ lastOut' \in {"error", "panic"}) =>
            /\ loops'[i].batch = Tail(loops[i].batch)
            /\ loops'[i].pc = IF Tail(loops[i].batch) = <<>>
                              THEN "select" ELSE "routing"]_vars

C16_Witness ==
  /\ Len(loops) = 1
  /\ lastOut = "error"
  /\ loops[1].pc = "fetching"
  /\ ~Done(1)
  /\ maxRouted = 1 /\ fetchArg = 2

\* C18: when GetUpdates returns an error, no update is routed for that tick,
\* the cursor stays as it was, the goroutine stays in its loop, and the next
\* tick calls GetUpdates again with the same cursor; this holds after every
\* failed call, however many came before.
C18_FetchErrorKeepsCursor ==
  \A i \in 1..Len(loops) :
    failArg # -1 =>
      /\ offset = failArg
      /\ loops[i].batch = <<>> /\ loops[i].pc # "routing"
      /\ loops[i].pc = "fetching" => (fetchArg = failArg /\ ENABLED FetchError(i))
      /\ GoesOn(i)

C18_Witness ==
  /\ Len(loops) = 1
  /\ failArg = 2 /\ offset = 2
  /\ loops[1].pc = "fetching" /\ fetchArg = 2
  /\ ~Done(1)

\* C19: the updates of a batch are routed one at a time in the order the
\* transport returned them: each Route call takes the head of what is left of
\* the batch, and the cursor is that update's id plus 1 before the next one is
\* taken; a loop holds updates to route only between a fetch and the select.
C19_BatchRoutedInOrder ==
  /\ [](\A i \in 1..Len(loops) :
          (loops[i].pc = "routing") <=> (loops[i].batch # <<>>))
  /\ [][\A i \in 1..Len(loops) :
          /\ RoutesHead(i) =>
               /\ loops'[i].batch = Tail(loops[i].batch)
               /\ offset' = Head(loops[i].batch) + 1
          /\ (i <= Len(loops') /\ loops'[i].batch # loops[i].batch) =>
               \/ RoutesHead(i)
               \/ loops[i].pc = "fetching" /\ loops[i].batch = <<>>]_vars

C19_Witness ==
  /\ Len(loops) = 1
  /\ loops[1].pc = "routing"
  /\ loops[1].batch = <<1>>
  /\ offset = 3 /\ maxRouted = 2 /\ lastFetched = 2

\* Stop has cancelled a polling loop of this poller.
Stopped == \E i \in 1..Len(loops) : loops[i].done

\* C20: Stopped is terminal: whatever Start and Stop calls are made, once the
\* poller has been stopped no polling loop of it is left uncancelled and none
\* is inside a GetUpdates call.
C20_StoppedIsTerminal ==
  Stopped =>
    \A j \in 1..Len(loops) : loops[j].done /\ loops[j].pc # "fetching"

\* C24: the loop looks at its cancellation only in the select between two
\* ticks: a loop that is cancelled while it fetches or routes cannot leave,
\* goes on routing what is left of the batch, each update moving the cursor
\* past it, and leaves only from the select with nothing left to route.
C24_CancelSeenAtSelectOnly ==
  /\ [](\A i \in 1..Len(loops) :
          /\ loops[i].pc = "exited" => loops[i].batch = <<>>
          /\ (Done(i) /\ loops[i].pc \in {"fetching", "routing"}) =>
               ~ENABLED LoopExit(i)
          /\ (Done(i) /\ loops[i].pc = "routing") => ENABLED RouteNext(i))
  /\ [][\A i \in 1..Len(loops) :
          /\ (loops[i].pc # "exited" /\ loops'[i].pc = "exited") =>
               (loops[i].pc = "select" /\ loops[i].batch = <<>>)
          /\ (RoutesHead(i) /\ Done(i)) =>
               /\ loops'[i].batch = Tail(loops[i].batch)
               /\ offset' = Head(loops[i].batch) + 1]_vars

C24_Witness ==
  /\ Len(loops) = 1
  /\ Done(1) /\ ~fetchedAfterCancel
  /\ loops[1].pc = "routing" /\ loops[1].batch = <<2>>
  /\ maxRouted = 1 /\ offset = 2

\* The polling goroutines of the poller that have not returned.
ActiveLoops == {i \in 1..Len(loops) : loops[i].pc # "exited"}

\* C29: whatever Start and Stop calls are made on one poller, at most one of
\* its polling loops is active at any time.
C29_AtMostOneActiveLoop == Cardinality(ActiveLoops) <= 1

\* C30: after a single Start, once Stop was called or the parent context was
\* cancelled, the loop terminates; and on a poller that was never started
\* Stop returns and changes nothing.
C30_StopTerminates ==
  /\ (Len(loops) = 1 /\ Done(1)) ~> (Len(loops) = 1 /\ loops[1].pc = "exited")
  /\ [](loops = <<>> =>
          /\ ENABLED (Stop /\ UNCHANGED vars)
          /\ ~ENABLED (Stop /\ vars' # vars))
C30_Witness ==
  /\ Len(loops) = 1
  /\ loops[1].done /\ ~parentDone
  /\ loops[1].pc = "exited"
  /\ offset = 1

\* ------------------------------------------------------------------------
\* Webhook receiver: properties
\* ------------------------------------------------------------------------
Answered(c) == conns[c].pc = "answered"
Decodes(c) ==
  /\ ReadAll(conns[c].body).err = Nil
  /\ Unmarshal(ReadAll(conns[c].body).data).err = Nil

\* C4: a POST whose body decodes as an Update is answered with status 200 and
\* the body "OK", whether the callback returns, fails inside or panics.
C4_AlwaysAcknowledged ==
  \A c \in 1..MaxConn :
    (Answered(c) /\ conns[c].method = "POST" /\ Decodes(c))
      => /\ conns[c].resp.status = 200
         /\ conns[c].resp.body = "OK"
         /\ ~conns[c].resp.crashed

C4_Witness ==
  \E c \in 1..MaxConn :
    /\ Answered(c) /\ conns[c].method = "POST" /\ Decodes(c)
    /\ conns[c].cb = "panic"
    /\ conns[c].resp.status = 200 /\ conns[c].resp.body = "OK"

\* C5: the callback is invoked once exactly when the request is a POST whose
\* body decodes; another method is answered 405, an unreadable or undecodable
\* body 400, both without callback and without the 200 acknowledgment.
C5_CallbackOnlyForDecodedPost ==
  \A c \in 1..MaxConn :
    Answered(c) =>
      /\ Len(conns[c].resp.callbacks) =
           (IF conns[c].method = "POST" /\ Decodes(c) THEN 1 ELSE 0)
      /\ conns[c].method # "POST" => conns[c].resp.status = 405
      /\ (conns[c].method = "POST" /\ ~Decodes(c)) => conns[c].resp.status = 400
      /\ ~(conns[c].method = "POST" /\ Decodes(c))
           => (conns[c].resp.body = "" /\ conns[c].resp.status # 200)

C5_Witness ==
  \E c \in 1..MaxConn :
    /\ Answered(c) /\ conns[c].method = "POST"
    /\ conns[c].body = "{\"update_id\":\"x\"}"
    /\ conns[c].resp.status = 400 /\ conns[c].resp.callbacks = <<>>

\* What holds of a ListenAndServe call at every moment: Shutdown has not
\* outlasted its timeout, the call returns what Shutdown returned (nil only
\* when no request was left in service, the deadline error only at the
\* timeout), and a request in service can still be answered.
ShutdownInTime ==
  /\ lsPc = "shutdown" => shutdownClock <= ShutdownTimeout
  /\ lsPc = "returned" =>
       /\ lsRet \in {Nil, "context deadline exceeded"}
       /\ lsRet = Nil => Drained
       /\ lsRet # Nil => shutdownClock = ShutdownTimeout
  /\ lsPc # "returned" => lsRet = "none"
  /\ \A c \in 1..MaxConn : conns[c].pc = "received" => ENABLED Serve(c)

C27_BlocksUntilCancelled ==
  /\ lsPc # "waiting" => ctxDone
  /\ ~ctxDone => lsRet = "none"
  /\ lsRet \in {"none", Nil, "context deadline exceeded"}
  /\ (lsPc = "waiting" /\ ~ctxDone) => ~ENABLED BeginShutdown

C27_Witness ==
  /\ server = "failed"
  /\ lsPc = "waiting"
  /\ ~ctxDone
  /\ lsRet = "none"

\* ------------------------------------------------------------------------
\* MemoryCache: properties
\* ------------------------------------------------------------------------
\* The goroutines between the return of Lock or RLock and the unlock.
InCritical == {t \in Threads : calls[t].pc \in {"locked", "checked", "deferred"}}
Writers == {t \in InCritical : calls[t].op \in {"Set", "Delete"}}

\* C21: under any interleaving of Set, Get and Delete calls each call takes
\* effect at one moment: what it returns is what the whole method returns on
\* the cache as the calls before it left it (Get the latest value set and not
\* deleted, or "key not found"; Delete an error exactly when the key is
\* absent), a goroutine that writes the map is alone with it, and the key a
\* Delete found is still there when it removes it.
C21_CallsAreAtomic ==
  /\ \A t \in Threads :
       /\ calls[t].pc = "deferred" => calls[t].ret = calls[t].exp
       /\ calls[t].pc = "checked" => mcData[calls[t].key] # Absent
  /\ \A t \in Writers : InCritical = {t}
  /\ Writers = {} => mcData = abs

C21_Witness ==
  /\ calls[1].op = "Delete" /\ calls[1].key = "k1" /\ calls[1].pc = "checked"
  /\ calls[2].op = "Delete" /\ calls[2].key = "k1" /\ calls[2].pc = "locking"
  /\ mcData["k1"] = "v2"

====
